---- MODULE Spec2Model ----
(***************************************************************************)
(* Baby Kyber: polynomial arithmetic in Z_q[X]/(X^n + 1)                   *)
(* (RingPolynom.py), the public-key primitive key_gen / encrypt / decrypt  *)
(* (babyKyber.py) and the decryption oracle of the chosen-ciphertext       *)
(* experiment (ind_cca.py).                                                *)
(*                                                                         *)
(* A Python list is a sequence; Python index i is index i + 1 here.        *)
(* Python's % with a positive modulus and TLA+'s % agree: both give the    *)
(* representative in [0, mod).                                             *)
(***************************************************************************)
EXTENDS Integers, Sequences, FiniteSets, TLC

VARIABLES
    q, n, k, eta,      \* BabyKyber.q, .n, .k, .eta; ring.mod = q, ring.n = n
    pc,                \* the latest call that returned
    A, t, s,           \* the key pair returned by key_gen
    m,                 \* the message the caller built for encrypt
    c,                 \* the ciphertext (u, v) returned by encrypt
    query,             \* the ciphertext handed to the latest decrypt / oracle call
    out,               \* the value the latest call returned
    err,               \* the exception the latest call ended in, or "none"
    p1, p2, p3,        \* the other lists handed to the latest call
    bit_b,             \* b of run_ind_cca_experiment, the challenge bit
    guess,             \* guess of run_ind_cca_experiment
    success,           \* success of run_ind_cca_experiment
    round              \* iterations of the loop of run_ind_cca_experiment completed

vars == <<q, n, k, eta, pc, A, t, s, m, c, query, out, err, p1, p2, p3,
          bit_b, guess, success, round>>

\* Python's None
None == "None"

----------------------------------------------------------------------------
(* Helpers *)

Max(a, b) == IF a >= b THEN a ELSE b

Min(a, b) == IF a <= b THEN a ELSE b

\* Python's [0] * cnt: the empty list when cnt <= 0 (built as a tuple)
Zeros(cnt) == <<>> \o [i \in 1..cnt |-> 0]

\* (-1) ** power
NegOnePow(power) == IF power % 2 = 0 THEN 1 ELSE -1

----------------------------------------------------------------------------
(* RingPolynomOperations.  For every operation: the list it returns, and   *)
(* the contents of each argument list when it returns.                     *)

\* the loop of module, lines 66-71: i runs over range(n, len(poly)), with
\* power = i // n, rem = i % n and coeff = poly[i]
RECURSIVE ModuleLoop(_, _, _, _, _)
ModuleLoop(mod, deg, poly, reduced, i) ==
    IF i >= Len(poly) THEN reduced
    ELSE ModuleLoop(mod, deg, poly,
            [reduced EXCEPT
                ![(i % deg) + 1] = (@ + NegOnePow(i \div deg) * poly[i + 1]) % mod],
            i + 1)

\* the loop of module with the sign of X^n = -1 forgotten
RECURSIVE ModuleLoopNoSign(_, _, _, _, _)
ModuleLoopNoSign(mod, deg, poly, reduced, i) ==
    IF i >= Len(poly) THEN reduced
    ELSE ModuleLoopNoSign(mod, deg, poly,
            [reduced EXCEPT ![(i % deg) + 1] = (@ + poly[i + 1]) % mod], i + 1)

\* lines 59-64: the first n coefficients, zero-padded to length n
ModuleStart(deg, poly) ==
    IF Len(poly) >= deg THEN SubSeq(poly, 1, deg)
    ELSE poly \o Zeros(deg - Len(poly))

\* line 73
Normalise(mod, reduced) == [i \in 1..Len(reduced) |-> reduced[i] % mod]

\* a module that folds with the sign of X^n = -1 forgotten
ModuleNoSign(mod, deg, poly) ==
    Normalise(mod, ModuleLoopNoSign(mod, deg, poly, ModuleStart(deg, poly), deg))

\* a module whose loop starts at index 0 instead of n
ModuleFromZero(mod, deg, poly) ==
    Normalise(mod, ModuleLoop(mod, deg, poly, ModuleStart(deg, poly), 0))

\* a module that reduces the coefficients modulo q and never folds modulo
\* X^n + 1
ModuleCoefficientsOnly(mod, deg, poly) == Normalise(mod, poly)

module(mod, deg, poly) ==
    Normalise(mod, ModuleLoop(mod, deg, poly, ModuleStart(deg, poly), deg))

\* module assigns only to reduced, a new list (a slice or a concatenation)
module_poly(mod, deg, poly) == poly

\* lines 18-23 of add
AddResult(mod, a, b) ==
    [i \in 1..Max(Len(a), Len(b)) |->
        ((IF i <= Len(a) THEN a[i] ELSE 0) + (IF i <= Len(b) THEN b[i] ELSE 0)) % mod]

add(mod, deg, a, b) == module(mod, deg, AddResult(mod, a, b))

\* an add that stores the sums in its first argument
AddInPlace(mod, deg, a, b) == AddResult(mod, a, b)

\* add builds p1_extended, p2_extended and result as new lists
add_p1(mod, deg, a, b) == a

add_p2(mod, deg, a, b) == b

\* the nested loops of multiply, lines 42-44, flattened: at step
\* i * len(p2) + j, result[i + j] = (result[i + j] + p1[i] * p2[j]) % mod
RECURSIVE MultiplyLoop(_, _, _, _, _)
MultiplyLoop(mod, a, b, result, step) ==
    IF step >= Len(a) * Len(b) THEN result
    ELSE MultiplyLoop(mod, a, b,
            [result EXCEPT
                ![(step \div Len(b)) + (step % Len(b)) + 1] =
                    (@ + a[(step \div Len(b)) + 1] * b[(step % Len(b)) + 1]) % mod],
            step + 1)

\* lines 39-44 of multiply
MultiplyResult(mod, a, b) == MultiplyLoop(mod, a, b, Zeros(Len(a) + Len(b) - 1), 0)

\* a multiply that drops the terms of degree n and more instead of folding them
MultiplyTruncated(mod, deg, a, b) ==
    module(mod, deg, SubSeq(MultiplyResult(mod, a, b), 1,
                            Min(deg, Len(MultiplyResult(mod, a, b)))))

multiply(mod, deg, a, b) == module(mod, deg, MultiplyResult(mod, a, b))

\* multiply only reads p1 and p2
multiply_p1(mod, deg, a, b) == a

multiply_p2(mod, deg, a, b) == b

----------------------------------------------------------------------------
(* The entropy source.  secrets.randbelow and secrets.choice may return    *)
(* any value of their range; the draws explored are the lists that hold    *)
(* one value up to a split position and another value after it.            *)

MaxSplit == 0

Pattern(x, y, split, len) == [i \in 1..len |-> IF i <= split THEN x ELSE y]

\* values of sc.randbelow(mod) explored: the lowest and the highest one
UniformValues(mod) == {0, mod - 1}

\* sample_uniform_polynomial: degree + 1 coefficients in [0, mod); the draw
\* explored that holds x up to split and mod - 1 - x after it
sample_uniform_polynomial(mod, degree, x, split) ==
    Pattern(x, mod - 1 - x, split, degree + 1)

\* the k x k comprehension of key_gen, lines 72-75: one call of
\* sample_uniform_polynomial(q, n) per entry; the matrices explored hold a
\* different entry at every position
UniformMatrices(mod, deg, kk) ==
    {[i \in 1..kk |-> [j \in 1..kk |->
        sample_uniform_polynomial(mod, deg, x, ((i - 1) * kk + j) % (deg + 2))]] :
        x \in UniformValues(mod)}

\* values of a - b with a, b = sc.choice(range(e + 1))
CBDValues(e) == {a - b : a \in 0..e, b \in 0..e}

\* the coefficient lists sample_cbd_polynomial builds before reducing them
CBDCoefficients(deg, e) ==
    UNION {{Pattern(x, x, split, deg), Pattern(x, -x, split, deg)} :
        x \in CBDValues(e), split \in 0..Min(MaxSplit, deg - 1)}

sample_cbd_polynomial(deg, e, mod) ==
    {module(mod, deg, coefficients) : coefficients \in CBDCoefficients(deg, e)}

\* [sample_cbd_polynomial(n, eta, ring) for _ in range(k)]; the vectors
\* explored repeat one draw in every entry
CBDVectors(deg, e, mod, kk) ==
    {[i \in 1..kk |-> poly] : poly \in sample_cbd_polynomial(deg, e, mod)}

----------------------------------------------------------------------------
(* BabyKyber *)

\* the accumulation loops of key_gen (lines 84-85), encrypt (lines 121-122
\* and 129-130) and decrypt (lines 156-157): for the first j entries,
\* acc = ring.add(acc, ring.multiply(row[j], vec[j])), from acc = start
RECURSIVE Accumulate(_, _, _, _, _, _)
Accumulate(mod, deg, start, row, vec, j) ==
    IF j = 0 THEN start
    ELSE add(mod, deg, Accumulate(mod, deg, start, row, vec, j - 1),
             multiply(mod, deg, row[j], vec[j]))

\* key_gen with the draws A0, s0, e0 of the entropy source
key_gen(mod, deg, kk, A0, s0, e0) ==
    [A |-> [i \in 1..kk |-> [j \in 1..kk |-> multiply_p1(mod, deg, A0[i][j], s0[j])]],
     t |-> [i \in 1..kk |-> add(mod, deg, Accumulate(mod, deg, <<0>>, A0[i], s0, kk), e0[i])],
     s |-> [j \in 1..kk |-> multiply_p2(mod, deg, A0[kk][j], s0[j])]]

\* a scaling of the message bits by floor(q/4) instead of ceil(q/2)
FloorQuarter(mod) == mod \div 4

\* math.ceil(q / 2)
CeilHalf(mod) == (mod + 1) \div 2

\* encrypt with the draws r, e1, e2.  pk_A, pk_t and m_bits are the lists
\* passed in; the fields A, t, m_bits of the result are their contents when
\* encrypt returns.  A[j][i] (line 115) or t[i] (line 130) past the end of a
\* list is Python's IndexError; nothing else is checked.
encrypt(pk_A, pk_t, m_bits, mod, deg, kk, r, e1, e2) ==
    IF Len(pk_A) < kk \/ Len(pk_t) < kk \/ \E j \in 1..Min(kk, Len(pk_A)) : Len(pk_A[j]) < kk
    THEN [err |-> "IndexError", ret |-> None, A |-> pk_A, t |-> pk_t, m_bits |-> m_bits]
    ELSE [err |-> "none",
          ret |-> [u |-> [i \in 1..kk |->
                            add(mod, deg,
                                Accumulate(mod, deg, <<0>>,
                                           [j \in 1..kk |-> pk_A[j][i]], r, kk),
                                e1[i])],
                   v |-> add(mod, deg, Accumulate(mod, deg, e2, pk_t, r, kk),
                             [i \in 1..Len(m_bits) |-> m_bits[i] * CeilHalf(mod)])],
          A |-> [i \in 1..Len(pk_A) |-> [j \in 1..Len(pk_A[i]) |->
                    IF i <= kk /\ j <= kk THEN multiply_p1(mod, deg, pk_A[i][j], r[i])
                    ELSE pk_A[i][j]]],
          t |-> [i \in 1..Len(pk_t) |->
                    IF i <= kk THEN multiply_p1(mod, deg, pk_t[i], r[i]) ELSE pk_t[i]],
          m_bits |-> m_bits]

\* the threshold decoding of decrypt, lines 161-171, with a window that
\* leaves out its two ends
DecodeStrict(mod, coeff) ==
    IF (mod \div 2) - (mod \div 4) < coeff % mod /\ coeff % mod < (mod \div 2) + (mod \div 4)
    THEN 1 ELSE 0

\* the threshold decoding of decrypt, lines 161-171: c_mod = coeff % ring.mod
\* against lower_bound and upper_bound (ring.mod = q)
Decode(mod, coeff) ==
    IF (mod \div 2) - (mod \div 4) <= coeff % mod /\ coeff % mod <= (mod \div 2) + (mod \div 4)
    THEN 1 ELSE 0

\* m_decoded, one bit per coefficient of decrypted
DecodeAll(mod, decrypted) == [i \in 1..Len(decrypted) |-> Decode(mod, decrypted[i])]

\* lines 155-159 of decrypt: decrypted = v - sTu
Decrypted(ct, sk, mod, deg, kk) ==
    add(mod, deg, ct.v,
        multiply(mod, deg, Accumulate(mod, deg, <<0>>, ct.u, sk, kk), <<-1>>))

\* decrypt; the fields c and s of the result are the contents of the lists
\* passed in when decrypt returns.  u[i] or s[i] (line 157) past the end of
\* a list is Python's IndexError; nothing else is checked.
decrypt(ct, sk, mod, deg, kk) ==
    IF Len(ct.u) < kk \/ Len(sk) < kk
    THEN [err |-> "IndexError", ret |-> None, c |-> ct, s |-> sk]
    ELSE [err |-> "none",
          ret |-> DecodeAll(mod, Decrypted(ct, sk, mod, deg, kk)),
          c   |-> [u |-> [i \in 1..Len(ct.u) |->
                            IF i <= kk THEN multiply_p1(mod, deg, ct.u[i], sk[i])
                            ELSE ct.u[i]],
                   v |-> add_p1(mod, deg, ct.v,
                                multiply(mod, deg,
                                         Accumulate(mod, deg, <<0>>, ct.u, sk, kk), <<-1>>))],
          s   |-> [i \in 1..Len(sk) |->
                    IF i <= kk THEN multiply_p2(mod, deg, ct.u[i], sk[i]) ELSE sk[i]]]

\* an oracle that compares only the v part with the challenge
OracleComparesV(ct, challenge_ciphertext, sk, mod, deg, kk) ==
    IF ct.v = challenge_ciphertext.v
    THEN [err |-> "ValueError", ret |-> None, c |-> ct, s |-> sk]
    ELSE decrypt(ct, sk, mod, deg, kk)

\* an oracle that compares only the u part with the challenge
OracleComparesU(ct, challenge_ciphertext, sk, mod, deg, kk) ==
    IF ct.u = challenge_ciphertext.u
    THEN [err |-> "ValueError", ret |-> None, c |-> ct, s |-> sk]
    ELSE decrypt(ct, sk, mod, deg, kk)

\* decrypt_oracle(kyber, s, q, k, ring, challenge_ciphertext)(c)
oracle(ct, challenge_ciphertext, sk, mod, deg, kk) ==
    IF ct = challenge_ciphertext
    THEN [err |-> "ValueError", ret |-> None, c |-> ct, s |-> sk]
    ELSE decrypt(ct, sk, mod, deg, kk)

----------------------------------------------------------------------------
(* The callers.  main.py and the experiments build a ring and a BabyKyber  *)
(* from one (q, n, k, eta), call key_gen once, and then encrypt and        *)
(* decrypt under that key pair; the attacker of ind_cca.py queries the     *)
(* oracle built for the ciphertext c.                                      *)

\* q, n, k, eta = 97, 4, 2, 1 (main.py line 108, ind_cca.py line 99)
DefaultParams == <<97, 4, 2, 1>>

\* the other parameters explored
Params == {<<7, 2, 2, 1>>, <<5, 3, 1, 0>>, <<3, 1, 1, 1>>}

Messages(deg) == [1..deg -> {0, 1}]

InitWith(par) ==
    /\ q = par[1] /\ n = par[2] /\ k = par[3] /\ eta = par[4]
    /\ pc = "init"
    /\ A = None /\ t = None /\ s = None /\ m = None /\ c = None
    /\ query = None /\ out = None /\ err = "none"
    /\ p1 = None /\ p2 = None /\ p3 = None
    /\ bit_b = None /\ guess = None /\ success = 0 /\ round = 0

Init == \E par \in Params : InitWith(par)

InitDefault == InitWith(DefaultParams)

\* A, t, s = key_gen(q, n, k, eta, ring)
KeyGen ==
    /\ pc = "init"
    /\ \E A0 \in UniformMatrices(q, n, k), s0 \in CBDVectors(n, eta, q, k),
          e0 \in CBDVectors(n, eta, q, k) :
          \E res \in {key_gen(q, n, k, A0, s0, e0)} :
             /\ A' = res.A /\ t' = res.t /\ s' = res.s
             /\ out' = <<res.A, res.t, res.s>>
    /\ pc' = "key_gen"
    /\ UNCHANGED <<bit_b, guess, success, round>>
    /\ UNCHANGED <<q, n, k, eta, m, c, query, err, p1, p2, p3>>

\* the caller builds a message of n bits (main.py lines 71-75, ind_cca.py
\* lines 114-118)
Prepare ==
    /\ pc = "key_gen"
    /\ m' \in Messages(n)
    /\ pc' = "message"
    /\ UNCHANGED <<bit_b, guess, success, round>>
    /\ UNCHANGED <<q, n, k, eta, A, t, s, c, query, out, err, p1, p2, p3>>

\* c = encrypt(A, t, m, q, n, k, eta, ring)
Encrypt ==
    /\ pc = "message"
    /\ \E r \in CBDVectors(n, eta, q, k), e1 \in CBDVectors(n, eta, q, k),
          e2 \in sample_cbd_polynomial(n, eta, q) :
          \E res \in {encrypt(A, t, m, q, n, k, r, e1, e2)} :
             /\ A' = res.A /\ t' = res.t /\ m' = res.m_bits
             /\ c' = res.ret /\ out' = res.ret /\ err' = res.err
    /\ pc' = "encrypt"
    /\ UNCHANGED <<bit_b, guess, success, round>>
    /\ UNCHANGED <<q, n, k, eta, s, query, p1, p2, p3>>

\* decrypt(c, s, q, k, ring)
Decrypt ==
    /\ pc \in {"encrypt", "oracle"}
    /\ \E res \in {decrypt(c, s, q, n, k)} :
          /\ c' = res.c /\ s' = res.s /\ query' = res.c
          /\ out' = res.ret /\ err' = res.err
    /\ pc' = "decrypt"
    /\ UNCHANGED <<bit_b, guess, success, round>>
    /\ UNCHANGED <<q, n, k, eta, A, t, m, p1, p2, p3>>

\* the ciphertexts the attacker hands to the oracle: c itself, c with one
\* coefficient of v incremented (ind_cca.py lines 85-88), c with one
\* coefficient of u incremented, c with a zero coefficient appended to v
Queries(ct, mod) ==
    {ct,
     [ct EXCEPT !.v[1] = (@ + 1) % mod],
     [ct EXCEPT !.u[1][1] = (@ + 1) % mod],
     [ct EXCEPT !.v = @ \o <<0>>]}

\* oracle = decrypt_oracle(kyber, s, q, k, ring, c); oracle(cq).  A query
\* built as (u, v_modified) holds the list u of c itself.
Oracle ==
    /\ pc \in {"encrypt", "decrypt"}
    /\ \E cq \in Queries(c, q) :
          \E res \in {oracle(cq, c, s, q, n, k)} :
             /\ query' = res.c /\ s' = res.s
             /\ c' = IF cq = c THEN res.c
                    ELSE IF cq.u = c.u THEN [c EXCEPT !.u = res.c.u]
                    ELSE IF cq.v = c.v THEN [c EXCEPT !.v = res.c.v]
                    ELSE c
             /\ out' = res.ret /\ err' = res.err
    /\ pc' = "oracle"
    /\ UNCHANGED <<bit_b, guess, success, round>>
    /\ UNCHANGED <<q, n, k, eta, A, t, m, p1, p2, p3>>

\* calls of encrypt with a malformed argument: (A, t, m_bits) with a message
\* entry outside {0, 1}, a message longer or shorter than n, a t shorter or
\* longer than k, an A with a row missing, an A with rows shorter than k
MalformedEncryptArgs(pk_A, pk_t, deg, kk) ==
    {<<pk_A, pk_t, [i \in 1..deg |-> IF i = 1 THEN 2 ELSE 0]>>,
     <<pk_A, pk_t, [i \in 1..(deg + 1) |-> 1]>>,
     <<pk_A, pk_t, [i \in 1..(deg - 1) |-> 1]>>,
     <<pk_A, SubSeq(pk_t, 1, kk - 1), [i \in 1..deg |-> 1]>>,
     <<pk_A, pk_t \o <<pk_t[1]>>, [i \in 1..deg |-> 1]>>,
     <<SubSeq(pk_A, 1, kk - 1), pk_t, [i \in 1..deg |-> 1]>>,
     <<[i \in 1..kk |-> SubSeq(pk_A[i], 1, kk - 1)], pk_t, [i \in 1..deg |-> 1]>>}

\* encrypt(A_arg, t_arg, m_arg, q, n, k, eta, ring) with a malformed argument
EncryptMalformed ==
    /\ pc = "key_gen"
    /\ \E args \in MalformedEncryptArgs(A, t, n, k) :
       \E r \in CBDVectors(n, eta, q, k), e1 \in CBDVectors(n, eta, q, k),
          e2 \in sample_cbd_polynomial(n, eta, q) :
          \E res \in {encrypt(args[1], args[2], args[3], q, n, k, r, e1, e2)} :
             /\ p1' = res.A /\ p2' = res.t /\ p3' = res.m_bits
             /\ A' = IF args[1] = A THEN res.A ELSE A
             /\ t' = IF args[2] = t THEN res.t ELSE t
             /\ out' = res.ret /\ err' = res.err
    /\ pc' = "encrypt_bad"
    /\ UNCHANGED <<bit_b, guess, success, round>>
    /\ UNCHANGED <<q, n, k, eta, s, m, c, query>>

\* calls of decrypt with a malformed argument: (c, s) with a u shorter or
\* longer than k, an s shorter or longer than k, a v longer than n, a
\* polynomial of u shorter than n
MalformedDecryptArgs(ct, sk, deg, kk) ==
    {<<[ct EXCEPT !.u = SubSeq(@, 1, kk - 1)], sk>>,
     <<[ct EXCEPT !.u = @ \o <<ct.v>>], sk>>,
     <<ct, SubSeq(sk, 1, kk - 1)>>,
     <<ct, sk \o <<sk[1]>> >>,
     <<[ct EXCEPT !.v = @ \o <<1>>], sk>>,
     <<[ct EXCEPT !.u[1] = SubSeq(@, 1, deg - 1)], sk>>}

\* decrypt(c_arg, s_arg, q, k, ring) with a malformed argument
DecryptMalformed ==
    /\ pc = "encrypt"
    /\ \E args \in MalformedDecryptArgs(c, s, n, k) :
          \E res \in {decrypt(args[1], args[2], q, n, k)} :
             /\ query' = res.c /\ p1' = res.s
             /\ c' = IF args[1] = c THEN res.c ELSE c
             /\ s' = IF args[2] = s THEN res.s ELSE s
             /\ out' = res.ret /\ err' = res.err
    /\ pc' = "decrypt_bad"
    /\ UNCHANGED <<bit_b, guess, success, round>>
    /\ UNCHANGED <<q, n, k, eta, A, t, m, p2, p3>>

Next ==
    \/ KeyGen
    \/ Prepare
    \/ Encrypt
    \/ Decrypt
    \/ Oracle
    \/ EncryptMalformed
    \/ DecryptMalformed

Spec == Init /\ [][Next]_vars

NextDefault ==
    \/ KeyGen
    \/ Prepare
    \/ Encrypt
    \/ Decrypt

\* one round of main.py at q, n, k, eta = 97, 4, 2, 1
SpecDefault == InitDefault /\ [][NextDefault]_vars

----------------------------------------------------------------------------
(* Direct calls of the ring operations on lists of any length *)

MaxLen == 7

MaxTermLen == 3

Lists(maxlen, values) == UNION {[1..len -> values] : len \in 0..maxlen}

\* coefficients explored: negative, zero, and above every modulus explored
ModuleValues == {-1, 0, 22}

TermValues == {-1, 22}

RingLoad1 ==
    /\ pc = "init"
    /\ p1' \in Lists(MaxLen, ModuleValues)
    /\ pc' = "loaded1"
    /\ UNCHANGED <<bit_b, guess, success, round>>
    /\ UNCHANGED <<q, n, k, eta, A, t, s, m, c, query, out, err, p2, p3>>

RingLoad3 ==
    /\ pc = "init"
    /\ p1' \in Lists(MaxTermLen, TermValues)
    /\ p2' \in Lists(MaxTermLen, TermValues)
    /\ p3' \in Lists(MaxTermLen, TermValues)
    /\ pc' = "loaded3"
    /\ UNCHANGED <<bit_b, guess, success, round>>
    /\ UNCHANGED <<q, n, k, eta, A, t, s, m, c, query, out, err>>

\* ring.module(p1)
RingModule ==
    /\ pc = "loaded1"
    /\ out' = module(q, n, p1)
    /\ p1' = module_poly(q, n, p1)
    /\ pc' = "module"
    /\ UNCHANGED <<bit_b, guess, success, round>>
    /\ UNCHANGED <<q, n, k, eta, A, t, s, m, c, query, err, p2, p3>>

\* ring.module(p1) and ring.module(ring.module(p1))
RingModuleTwice ==
    /\ pc = "loaded1"
    /\ out' = <<module(q, n, p1), module(q, n, module(q, n, p1))>>
    /\ p1' = module_poly(q, n, p1)
    /\ pc' = "module_twice"
    /\ UNCHANGED <<bit_b, guess, success, round>>
    /\ UNCHANGED <<q, n, k, eta, A, t, s, m, c, query, err, p2, p3>>

\* ring.add(p1, p2)
RingAdd ==
    /\ pc = "loaded3"
    /\ out' = add(q, n, p1, p2)
    /\ p1' = add_p1(q, n, p1, p2)
    /\ p2' = add_p2(q, n, p1, p2)
    /\ p3' = None
    /\ pc' = "add"
    /\ UNCHANGED <<bit_b, guess, success, round>>
    /\ UNCHANGED <<q, n, k, eta, A, t, s, m, c, query, err>>

\* ring.multiply(p1, p2)
RingMultiply ==
    /\ pc = "loaded3"
    /\ out' = multiply(q, n, p1, p2)
    /\ p1' = multiply_p1(q, n, p1, p2)
    /\ p2' = multiply_p2(q, n, p1, p2)
    /\ p3' = None
    /\ pc' = "multiply"
    /\ UNCHANGED <<bit_b, guess, success, round>>
    /\ UNCHANGED <<q, n, k, eta, A, t, s, m, c, query, err>>

\* ring.multiply(p1, ring.add(p2, p3)) and
\* ring.add(ring.multiply(p1, p2), ring.multiply(p1, p3))
RingDistribute ==
    /\ pc = "loaded3"
    /\ out' = <<multiply(q, n, p1, add(q, n, p2, p3)),
                add(q, n, multiply(q, n, p1, p2), multiply(q, n, p1, p3))>>
    /\ p1' = multiply_p1(q, n, multiply_p1(q, n, p1, p2), p3)
    /\ p2' = multiply_p2(q, n, p1, add_p1(q, n, p2, p3))
    /\ p3' = multiply_p2(q, n, p1, add_p2(q, n, p2, p3))
    /\ pc' = "distribute"
    /\ UNCHANGED <<bit_b, guess, success, round>>
    /\ UNCHANGED <<q, n, k, eta, A, t, s, m, c, query, err>>

NextRing ==
    \/ RingLoad1
    \/ RingLoad3
    \/ RingModule
    \/ RingModuleTwice
    \/ RingAdd
    \/ RingMultiply
    \/ RingDistribute

SpecRing == Init /\ [][NextRing]_vars

NextAll ==
    \/ Next
    \/ NextRing

SpecAll == Init /\ [][NextAll]_vars

----------------------------------------------------------------------------
(* run_ind_cca_experiment (ind_cca.py) at its default parameters *)

\* rounds, 10000 by default, capped
MaxRounds == 2

RECURSIVE SumOf(_, _)
SumOf(bits, i) == IF i = 0 THEN 0 ELSE bits[i] + SumOf(bits, i - 1)

\* lines 85-88: c_modified = (u, v_modified), v_modified = v + delta modulo q
\* with delta = [1] + [0] * (len(v) - 1)
c_modified(c_star, mod) ==
    [u |-> c_star.u,
     v |-> [i \in 1..Len(c_star.v) |-> (c_star.v[i] + (IF i = 1 THEN 1 ELSE 0)) % mod]]

\* lines 95-96: 1 if sum(m_dec) >= len(m_dec) // 2 else 0
Threshold(m_dec) == IF SumOf(m_dec, Len(m_dec)) >= Len(m_dec) \div 2 THEN 1 ELSE 0

\* attacker_guess_cca_with_oracle(c_star, oracle, q) with the oracle of
\* decrypt_oracle(kyber, sk, q, k, ring, c_star); fallback is the value of
\* secrets.randbelow(2) at line 93.  ValueError is the only exception caught.
attacker_guess_cca_with_oracle(c_star, sk, mod, deg, kk, fallback) ==
    LET res == oracle(c_modified(c_star, mod), c_star, sk, mod, deg, kk)
    IN  [query |-> res.c, s |-> res.s, m_dec |-> res.ret,
         raised |-> res.err,
         err |-> IF res.err = "ValueError" THEN "none" ELSE res.err,
         guess |-> IF res.err = "ValueError" THEN fallback
                   ELSE IF res.err = "none" THEN Threshold(res.ret)
                   ELSE None]

\* lines 110-111: generate_kyber_instance(q, n, k, eta), success = 0
GenerateKyberInstance ==
    /\ pc = "init"
    /\ \E A0 \in UniformMatrices(q, n, k), s0 \in CBDVectors(n, eta, q, k),
          e0 \in CBDVectors(n, eta, q, k) :
          \E res \in {key_gen(q, n, k, A0, s0, e0)} :
             /\ A' = res.A /\ t' = res.t /\ s' = res.s
    /\ success' = 0
    /\ pc' = "cca_instance"
    /\ UNCHANGED <<q, n, k, eta, m, c, query, out, err, p1, p2, p3, bit_b, guess, round>>

\* lines 113-119: a round begins; b = secrets.randbelow(2), m_b is m0 = [0] * n
\* or m1 = [1] * n, c_star = kyber.encrypt(A, t, m_b, q, n, k, eta, ring)
Challenge ==
    /\ pc \in {"cca_instance", "cca_scored"}
    /\ round < MaxRounds
    /\ \E b0 \in {0, 1}, r \in CBDVectors(n, eta, q, k), e1 \in CBDVectors(n, eta, q, k),
          e2 \in sample_cbd_polynomial(n, eta, q) :
          \E res \in {encrypt(A, t, [i \in 1..n |-> b0], q, n, k, r, e1, e2)} :
             /\ bit_b' = b0
             /\ A' = res.A /\ t' = res.t /\ m' = res.m_bits
             /\ c' = res.ret /\ err' = res.err
    /\ pc' = "cca_challenge"
    /\ UNCHANGED <<q, n, k, eta, s, query, out, p1, p2, p3, guess, success, round>>

\* lines 121-123: guess = attacker_guess_cca_with_oracle(c_star, oracle, q);
\* query is the ciphertext the attacker handed to the oracle, out what the
\* oracle returned, err what it raised
Guess ==
    /\ pc = "cca_challenge"
    /\ err = "none"
    /\ \E fallback \in {0, 1} :
          \E res \in {attacker_guess_cca_with_oracle(c, s, q, n, k, fallback)} :
             /\ query' = res.query /\ s' = res.s /\ out' = res.m_dec
             /\ err' = res.raised /\ guess' = res.guess
    /\ pc' = "cca_guess"
    /\ UNCHANGED <<q, n, k, eta, A, t, m, c, p1, p2, p3, bit_b, success, round>>

\* lines 124-125: if guess == b: success += 1, and the loop body ends.  The
\* names m_b, b, c_star, oracle and guess are bound again by the next
\* iteration before anything reads them: they hold nothing from here on.
Score ==
    /\ pc = "cca_guess"
    /\ err \in {"none", "ValueError"}
    /\ success' = IF guess = bit_b THEN success + 1 ELSE success
    /\ round' = round + 1
    /\ m' = None /\ c' = None /\ query' = None /\ out' = None
    /\ bit_b' = None /\ guess' = None /\ err' = "none"
    /\ pc' = "cca_scored"
    /\ UNCHANGED <<q, n, k, eta, A, t, s, p1, p2, p3>>

NextCCA ==
    \/ GenerateKyberInstance
    \/ Challenge
    \/ Guess
    \/ Score

SpecCCA == InitDefault /\ [][NextCCA]_vars

----------------------------------------------------------------------------
(* The ring Z_q[X]/(X^n + 1), stated without the loops of the code: the     *)
(* coefficient r of a list reduced modulo X^n + 1 is the signed sum of the  *)
(* coefficients at the indices i with i mod n = r, with sign (-1)^(i div n).*)

RECURSIVE SignedSum(_, _, _, _)
SignedSum(poly, deg, r, i) ==
    IF i >= Len(poly) THEN 0
    ELSE (IF i % deg = r THEN NegOnePow(i \div deg) * poly[i + 1] ELSE 0)
         + SignedSum(poly, deg, r, i + 1)

Residue(mod, deg, poly) == [r \in 1..deg |-> SignedSum(poly, deg, r - 1, 0) % mod]

\* coefficient idx of the product of a and b over the integers
RECURSIVE ConvolutionSum(_, _, _, _)
ConvolutionSum(a, b, idx, i) ==
    IF i >= Len(a) THEN 0
    ELSE (IF idx - i >= 0 /\ idx - i < Len(b) THEN a[i + 1] * b[idx - i + 1] ELSE 0)
         + ConvolutionSum(a, b, idx, i + 1)

IntegerProduct(a, b) == [idx \in 1..(Len(a) + Len(b) - 1) |-> ConvolutionSum(a, b, idx - 1, 0)]

\* sum over i < kk of coefficient r of u[i] * sk[i] in the ring, as an integer
RECURSIVE InnerProductCoeff(_, _, _, _, _)
InnerProductCoeff(u, sk, deg, r, kk) ==
    IF kk = 0 THEN 0
    ELSE SignedSum(IntegerProduct(u[kk], sk[kk]), deg, r, 0)
         + InnerProductCoeff(u, sk, deg, r, kk - 1)

\* d = v - sum over i < k of u[i] * s[i], with coefficients in [0, q)
RingDifference(ct, sk, mod, deg, kk) ==
    [r \in 1..deg |->
        (SignedSum(ct.v, deg, r - 1, 0) - InnerProductCoeff(ct.u, sk, deg, r - 1, kk)) % mod]

\* bit i is 1 exactly when floor(q/2) - floor(q/4) <= d[i] <= floor(q/2) + floor(q/4)
WindowBits(mod, d) ==
    [i \in 1..Len(d) |->
        IF (mod \div 2) - (mod \div 4) <= d[i] /\ d[i] <= (mod \div 2) + (mod \div 4)
        THEN 1 ELSE 0]

IsPolynomial(poly, mod, deg) ==
    /\ Len(poly) = deg
    /\ \A i \in 1..Len(poly) : poly[i] \in 0..(mod - 1)

IsBitVector(bits, deg) ==
    /\ Len(bits) = deg
    /\ \A i \in 1..Len(bits) : bits[i] \in {0, 1}

----------------------------------------------------------------------------
(* Claims *)

\* C1: at q = 97, n = 4, k = 2, eta = 1, for every key pair of key_gen, every
\* message of 4 bits and every draw of r, e1, e2 explored, decrypt of the
\* ciphertext of encrypt returns the message, without an error.
RoundTrip == pc = "decrypt" => (err = "none" /\ out = m)

\* C1 witness: a round trip of the message 1011 in which the noise of a
\* coefficient that carries a 1 is the largest possible, 17 (49 + 17 = 66)
RoundTripWitness ==
    /\ pc = "decrypt" /\ q = 97 /\ n = 4 /\ k = 2 /\ eta = 1
    /\ m = <<1, 0, 1, 1>> /\ out = m
    /\ Decrypted(query, s, q, n, k)[4] = 66

\* C2: key_gen returns A with k rows of k entries, each a list of exactly n
\* coefficients, and t with k entries, each a list of exactly n coefficients
\* in [0, q).
KeyShape ==
    pc = "key_gen" =>
        /\ Len(A) = k
        /\ \A i \in 1..Len(A) : Len(A[i]) = k /\ \A j \in 1..Len(A[i]) : Len(A[i][j]) = n
        /\ Len(t) = k
        /\ \A i \in 1..Len(t) : IsPolynomial(t[i], q, n)

\* C3: the oracle built for the challenge c raises ValueError and decrypts
\* nothing when the query equals c, and for every other query it raises
\* nothing and returns the decryption of the query, n bits.
OracleRejection ==
    pc = "oracle" =>
        IF query = c
        THEN err = "ValueError" /\ out = None
        ELSE /\ err = "none"
             /\ IsBitVector(out, n)
             /\ out = WindowBits(q, RingDifference(query, s, q, n, k))

\* C3 witness: the oracle answered the query that is c with the first
\* coefficient of v incremented modulo q
OracleRejectionWitness ==
    /\ pc = "oracle" /\ err = "none"
    /\ query.u = c.u /\ Len(query.v) = n
    /\ query.v[1] = (c.v[1] + 1) % q
    /\ \E i \in 1..n : out[i] = 1

\* C4: encrypt and decrypt called with a malformed argument end in an error
\* and return no ciphertext and no bit-vector.
BoundaryValidation ==
    pc \in {"encrypt_bad", "decrypt_bad"} => (err # "none" /\ out = None)

\* C5: every ciphertext (u, v) returned by encrypt for a key of key_gen and a
\* message of n bits has u of length k, every u[i] and v of length n, and
\* every coefficient in [0, q).
CiphertextShape ==
    pc = "encrypt" =>
        /\ err = "none"
        /\ Len(c.u) = k
        /\ \A i \in 1..Len(c.u) : IsPolynomial(c.u[i], q, n)
        /\ IsPolynomial(c.v, q, n)

\* C5 witness: a ciphertext under a 2 x 2 key whose u and v hold the largest
\* coefficient, q - 1
CiphertextShapeWitness ==
    /\ pc = "encrypt" /\ k = 2
    /\ \E i \in 1..n : c.v[i] = q - 1
    /\ \E i \in 1..n : c.u[2][i] = q - 1

\* C6: multiply(a, add(b, c)) = add(multiply(a, b), multiply(a, c)) for lists
\* a, b, c of any lengths.
Distributivity == pc = "distribute" => out[1] = out[2]

\* C6 witness: three lists longer than n, of unequal lengths, with a product
\* that is not zero
DistributivityWitness ==
    /\ pc = "distribute"
    /\ Len(p1) > n /\ Len(p2) > n /\ Len(p3) > n /\ Len(p2) # Len(p3)
    /\ \E i \in 1..n : out[1][i] # 0

\* C7: module(module(p)) = module(p) for every list p.
IdempotentReduction == pc = "module_twice" => out[2] = out[1]

\* C7 witness: a list longer than 2n with a negative coefficient and a
\* reduction that is not zero
IdempotentReductionWitness ==
    /\ pc = "module_twice"
    /\ Len(p1) > 2 * n
    /\ \E i \in 1..Len(p1) : p1[i] < 0
    /\ \E i \in 1..n : out[1][i] # 0

\* C8: module(poly) has length n and its coefficient r is the signed sum of
\* the coefficients of poly at the indices i with i mod n = r, sign
\* (-1)^(i div n), reduced to [0, q).
ModuleResidue ==
    pc = "module" => (IsPolynomial(out, q, n) /\ out = Residue(q, n, p1))

\* C8 witness: a list of length 2n or more whose folding meets a negative
\* coefficient at an index of n or more
ModuleResidueWitness ==
    /\ pc = "module"
    /\ Len(p1) >= 2 * n
    /\ \E i \in (n + 1)..Len(p1) : p1[i] < 0
    /\ \E i \in 1..n : out[i] # 0

\* C9: decrypt returns n bits, bit i being 1 exactly when
\* floor(q/2) - floor(q/4) <= d[i] <= floor(q/2) + floor(q/4) for
\* d = v - sum of u[i] * s[i] in the ring with coefficients in [0, q); the
\* window does not wrap, and for q = 97 it is 24..72.
DecryptWindow ==
    /\ pc = "decrypt" =>
          /\ err = "none"
          /\ IsBitVector(out, n)
          /\ out = WindowBits(q, RingDifference(query, s, q, n, k))
    /\ \A d \in 0..96 : Decode(97, d) = (IF 24 <= d /\ d <= 72 THEN 1 ELSE 0)

\* C9 witness: a decryption in which a coefficient of d sits on the lower end
\* of the window and another one below it
DecryptWindowWitness ==
    /\ pc = "decrypt"
    /\ \E i \in 1..n : RingDifference(query, s, q, n, k)[i] = (q \div 2) - (q \div 4) /\ out[i] = 1
    /\ \E i \in 1..n : RingDifference(query, s, q, n, k)[i] < (q \div 2) - (q \div 4) /\ out[i] = 0

\* C10: no call changes a list it was handed or a value returned earlier:
\* add, multiply and module leave their arguments as they were, encrypt
\* leaves A, t, s and the message, and decrypt and the oracle leave A, t, s,
\* the message and the ciphertext.
FramePreserved ==
    /\ pc' \in {"module", "module_twice"} => p1' = p1
    /\ pc' \in {"add", "multiply"} => (p1' = p1 /\ p2' = p2)
    /\ pc' = "distribute" => (p1' = p1 /\ p2' = p2 /\ p3' = p3)
    /\ pc' \in {"encrypt", "encrypt_bad"} => (A' = A /\ t' = t /\ s' = s /\ m' = m)
    /\ pc' \in {"decrypt", "oracle", "decrypt_bad"} =>
          (A' = A /\ t' = t /\ s' = s /\ m' = m /\ c' = c)

AttackerAlwaysWins ==
    /\ pc = "cca_guess" =>
          /\ query.u = c.u
          /\ query.v = [i \in 1..n |-> IF i = 1 THEN (c.v[1] + 1) % q ELSE c.v[i]]
          /\ query # c
          /\ err = "none"
          /\ out = [i \in 1..n |-> bit_b]
          /\ guess = bit_b
    /\ success = round
    /\ (pc = "cca_scored" /\ round = MaxRounds) => success = MaxRounds

\* C11 witness: in the last round the challenge bit is 0, v[0] of c* is q - 1
\* and wraps to 0 in the query, the oracle returns 0000 and the guess is 0
AttackerAlwaysWinsWitness ==
    /\ pc = "cca_guess" /\ round = MaxRounds - 1 /\ success = MaxRounds - 1
    /\ bit_b = 0 /\ guess = 0 /\ out = <<0, 0, 0, 0>>
    /\ c.v[1] = q - 1 /\ query.v[1] = 0

====
